---- MODULE Spec2Model ----
(***************************************************************************)
(* Model of src/app.py, the Nifty 50 dashboard script.                     *)
(*                                                                         *)
(* The script is re-run from top to bottom for every rendering pass.  Two  *)
(* functions, fetch_pro_data and fetch_historical_perf, sit behind         *)
(* st.cache_data(ttl=600); the index pulse loop and the volatility loop    *)
(* call the provider (yfinance) directly.                                  *)
(*                                                                         *)
(* Numbers.  Prices are integers in units of 0.001 rupee.  A value the     *)
(* code rounds to two decimals is an integer in units of 0.01 (so          *)
(* "Today %" = 250 is +2.50 %).  A float that can be non-finite is a       *)
(* record [k, v] with k in {"num", "inf", "-inf", "nan"}.  An unrounded    *)
(* quotient is kept exact as a fraction [n, d].                            *)
(*                                                                         *)
(* Strings.  A ticker is the sequence of its tokens, <<"TCS", ".NS">>, so  *)
(* that str.replace and + are computed and not assumed.                    *)
(***************************************************************************)
EXTENDS Integers, Sequences, FiniteSets, TLC

VARIABLES
    now,         \* wall clock, seconds
    pc,          \* position of the script in the current run
    idx_i,       \* index pulse loop: position in indices (line 135)
    df,          \* module-level df (line 125); gains Trend at line 178
    cache_pro,   \* st.cache_data store of fetch_pro_data: <<>> or <<[at, value]>>
    cache_hist,  \* st.cache_data store of fetch_historical_perf, per symbol
    calls,       \* provider calls made by the current run: {<<ticker, what>>}
    page,        \* the element the current run rendered last
    rendered,    \* names of the sections the current run has rendered
    provider,    \* the provider's answers (specifications over pure functions)
    ticker_list, \* argument of fetch_pro_data
    last_complete \* when the latest earlier run that reached line 230 ran, if
                 \* that is less than ttl seconds before this run; else -1

vars == <<now, pc, idx_i, df, cache_pro, cache_hist, calls, page, rendered,
          provider, ticker_list, last_complete>>

-----------------------------------------------------------------------------
(* Bounds *)

NumTickers == 2        \* rendering passes run on this prefix of the basket
MaxTime == 1210        \* the clock stops here
NumCalcTickers == 3    \* basket prefix given to fetch_pro_data with failing tickers
MaxRows == 6           \* basket prefix given to fetch_pro_data for the rankings

-----------------------------------------------------------------------------
(* Program constants *)

ttl_fetch_pro_data == 600
ttl_fetch_historical_perf == 600
min_points == 21
top_n_gainers == 5
top_n_losers == 5

\* lines 59-70, first ten entries
nifty_50_tickers ==
    << <<"RELIANCE", ".NS">>, <<"TCS", ".NS">>, <<"HDFCBANK", ".NS">>,
       <<"ICICIBANK", ".NS">>, <<"BHARTIARTL", ".NS">>, <<"INFY", ".NS">>,
       <<"ITC", ".NS">>, <<"SBIN", ".NS">>, <<"LICI", ".NS">>,
       <<"HINDUNILVR", ".NS">> >>

\* line 133, in dict order
indices ==
    << [name |-> "NIFTY 50", t |-> <<"^NSEI">>],
       [name |-> "SENSEX", t |-> <<"^BSESN">>],
       [name |-> "BANK NIFTY", t |-> <<"^NSEBANK">>] >>

\* lines 46-56, for the modelled tickers
REVERSE_MAP ==
    [s \in { <<"HDFCBANK">>, <<"ICICIBANK">>, <<"SBIN">>, <<"TCS">>, <<"INFY">>,
             <<"RELIANCE">>, <<"ITC">>, <<"HINDUNILVR">> } |->
        CASE s \in { <<"HDFCBANK">>, <<"ICICIBANK">>, <<"SBIN">> } -> "Banking/Finance"
          [] s \in { <<"TCS">>, <<"INFY">> } -> "IT/Technology"
          [] s \in { <<"RELIANCE">> } -> "Energy/Oil"
          [] OTHER -> "Consumer Goods"]

-----------------------------------------------------------------------------
(* Python and pandas primitives *)

Range(s) == { s[i] : i \in DOMAIN s }

\* s.iloc[-k]; the callers guard Len(s) >= k
iloc_neg(s, k) == s[Len(s) - k + 1]

\* round(n/d) to the nearest integer, ties to even; d > 0
RoundHalfEven(n, d) ==
    LET q == n \div d
        r == n % d
    IN  IF 2 * r < d THEN q
        ELSE IF 2 * r > d THEN q + 1
        ELSE IF q % 2 = 0 THEN q ELSE q + 1

\* round(x, 2) of a price in units of 0.001, in units of 0.01
round2_price(x) == RoundHalfEven(x, 10)

\* round(n/d*100, 2), in units of 0.01; d > 0
round2_pct(n, d) == RoundHalfEven(n * 10000, d)

Num(v) == [k |-> "num", v |-> v]
Inf == [k |-> "inf", v |-> 0]
NegInf == [k |-> "-inf", v |-> 0]
NaN == [k |-> "nan", v |-> 0]
IsFinite(x) == x.k = "num"

\* round((n/d)*100, 2) where n is a numpy float64: a zero divisor gives
\* inf, -inf or nan (a RuntimeWarning), never ZeroDivisionError
round2_pct_np(n, d) ==
    IF d > 0 THEN Num(round2_pct(n, d))
    ELSE IF d < 0 THEN Num(round2_pct(-n, -d))
    ELSE IF n > 0 THEN Inf
    ELSE IF n < 0 THEN NegInf
    ELSE NaN

\* a dict value: None or a number
None == [none |-> TRUE, v |-> 0]
Val(v) == [none |-> FALSE, v |-> v]

\* dict.get(key, default)
dict_get(d, key, default) == IF key \in DOMAIN d THEN d[key] ELSE Val(default)

\* str.replace(".NS", "") on a token sequence
symbol_clean(ticker) == SelectSeq(ticker, LAMBDA tok : tok # ".NS")

\* symbol + ".NS"
with_ns(symbol) == symbol \o <<".NS">>

\* REVERSE_MAP.get(symbol_clean, "Other")
sector_of(symbol) ==
    IF symbol \in DOMAIN REVERSE_MAP THEN REVERSE_MAP[symbol] ELSE "Other"

-----------------------------------------------------------------------------
(* The provider (yfinance), as the script sees it *)

\* closes of a history of n sessions: 10.000 rupees everywhere except the
\* five sessions the script reads, counted from the end
MkCloses(n, c21, c20, c10, prev, ltp) ==
    [i \in 1..n |->
        CASE i = n -> ltp
          [] i = n - 1 -> prev
          [] i = n - 9 -> c10
          [] i = n - 19 -> c20
          [] i = n - 20 -> c21
          [] OTHER -> 10000]

\* Ticker.history(...): raises, or returns a frame with Close and Volume
Raises == [raises |-> TRUE, Close |-> <<>>, Volume |-> <<>>]
Frame(closes) ==
    [raises |-> FALSE, Close |-> closes,
     Volume |-> [i \in DOMAIN closes |-> 1000 + i]]

\* Ticker.info: raises, or returns a dict
InfoRaises == [raises |-> TRUE, d |-> <<>>]
Info(d) == [raises |-> FALSE, d |-> d]

FullInfo ==
    Info([fiftyTwoWeekHigh |-> Val(12500), fiftyTwoWeekLow |-> Val(8000),
          marketCap |-> Val(12345678)])

-----------------------------------------------------------------------------
(* fetch_pro_data, lines 73-107 *)

HistoryCall(ticker, period) == <<ticker, "history", period>>
InfoCall(ticker) == <<ticker, "info", "">>

\* lines 86-88
signal_of(close_20, close_10, ltp) ==
    IF close_20 < ltp THEN "BULLISH"
    ELSE IF close_10 > ltp THEN "BEARISH"
    ELSE "NEUTRAL"

\* lines 92-93
dist_high_of(high_52w, ltp) == round2_pct_np(high_52w - ltp, high_52w)
dist_low_of(low_52w, ltp) == round2_pct_np(ltp - low_52w, low_52w)

\* One iteration of the loop, lines 77-106: the rows it appends (none when it
\* takes a continue, at line 81 or line 106) and the provider calls it makes.
\* P is what the provider answers for this ticker.
fetch_pro_data_body(ticker, P) ==
    LET hist == P.history
        seen == { HistoryCall(ticker, "30d") }
    IN  IF hist.raises THEN [rows |-> <<>>, calls |-> seen]
        ELSE IF Len(hist.Close) < min_points THEN [rows |-> <<>>, calls |-> seen]
        ELSE
          LET ltp == iloc_neg(hist.Close, 1)
              prev_close == iloc_neg(hist.Close, 2)
              close_20 == iloc_neg(hist.Close, 20)
              close_10 == iloc_neg(hist.Close, 10)
              signal == signal_of(close_20, close_10, ltp)
              seen2 == seen \cup { InfoCall(ticker) }
          IN  IF P.info.raises THEN [rows |-> <<>>, calls |-> seen2]
              ELSE
                LET info == P.info.d
                    high_52w == dict_get(info, "fiftyTwoWeekHigh", ltp)
                    low_52w == dict_get(info, "fiftyTwoWeekLow", ltp)
                    mcap == dict_get(info, "marketCap", 0)
                IN  \* None in arithmetic: TypeError, caught at line 106
                    IF high_52w.none \/ low_52w.none \/ mcap.none
                    THEN [rows |-> <<>>, calls |-> seen2]
                    ELSE
                      [rows |-> <<
                         [Symbol |-> symbol_clean(ticker),
                          Sector |-> sector_of(symbol_clean(ticker)),
                          LTP |-> round2_price(ltp),
                          Change |-> round2_price(ltp - prev_close),
                          TodayPct |-> round2_pct(ltp - prev_close, prev_close),
                          Signal |-> signal,
                          Near52WHigh |-> dist_high_of(high_52w.v, ltp),
                          Near52WLow |-> dist_low_of(low_52w.v, ltp),
                          Volume |-> iloc_neg(hist.Volume, 1),
                          MarketCapCr |-> RoundHalfEven(mcap.v * 100, 10000000)] >>,
                       calls |-> seen2]

\* the loop with break in place of continue: the first ticker without a row
\* ends it
RECURSIVE fetch_pro_data_break_from(_, _, _)
fetch_pro_data_break_from(tickers, P, i) ==
    IF i > Len(tickers) THEN [rows |-> <<>>, calls |-> {}]
    ELSE LET one == fetch_pro_data_body(tickers[i], P[tickers[i]])
             rest == IF one.rows = <<>> THEN [rows |-> <<>>, calls |-> {}]
                     ELSE fetch_pro_data_break_from(tickers, P, i + 1)
         IN  [rows |-> one.rows \o rest.rows, calls |-> one.calls \cup rest.calls]
fetch_pro_data_break(tickers, P) == fetch_pro_data_break_from(tickers, P, 1)

RECURSIVE fetch_pro_data_from(_, _, _)
fetch_pro_data_from(tickers, P, i) ==
    IF i > Len(tickers) THEN [rows |-> <<>>, calls |-> {}]
    ELSE LET one == fetch_pro_data_body(tickers[i], P[tickers[i]])
             rest == fetch_pro_data_from(tickers, P, i + 1)
         IN  [rows |-> one.rows \o rest.rows, calls |-> one.calls \cup rest.calls]

\* the uncached function: the frame it returns and the provider calls it makes
fetch_pro_data(tickers, P) == fetch_pro_data_from(tickers, P, 1)

-----------------------------------------------------------------------------
(* fetch_historical_perf, lines 110-121 *)

Frac(n, d) == [n |-> n, d |-> d]
Zero == Frac(0, 1)

\* (curr-ref)/ref*100, unrounded: kept as the fraction (curr-ref)*100 / ref
pct_return(curr, ref) == Frac((curr - ref) * 100, ref)

fetch_historical_perf(symbol, data) ==
    IF data.raises THEN [W1 |-> Zero, M1 |-> Zero, Y1 |-> Zero]
    ELSE IF Len(data.Close) = 0 THEN [W1 |-> Zero, M1 |-> Zero, Y1 |-> Zero]
    ELSE
      LET c == data.Close
          curr == iloc_neg(c, 1)
          prev_week == IF Len(c) >= 5 THEN iloc_neg(c, 5) ELSE c[1]
          prev_month == IF Len(c) >= 21 THEN iloc_neg(c, 21) ELSE c[1]
          prev_year == IF Len(c) >= 252 THEN iloc_neg(c, 252) ELSE c[1]
      IN  [W1 |-> pct_return(curr, prev_week),
           M1 |-> pct_return(curr, prev_month),
           Y1 |-> pct_return(curr, prev_year)]

-----------------------------------------------------------------------------
(* st.cache_data(ttl=...) *)

\* a cache without ttl: an entry is served for ever
CacheValid_no_ttl(entries, ttl, t) == entries # <<>>

\* an entry stored at time `at` is served while fewer than ttl seconds passed
CacheValid(entries, ttl, t) == entries # <<>> /\ t - entries[1].at < ttl

CacheStore(value, t) == << [at |-> t, value |-> value] >>

-----------------------------------------------------------------------------
(* pandas on a frame, a sequence of rows *)

Min(a, b) == IF a < b THEN a ELSE b

\* rows by ascending key, rows of equal key in their order in the frame;
\* keys[i] is the key of rows[i]
StableSort(rows, keys) ==
    LET pos(i) == 1 + Cardinality({ j \in DOMAIN rows :
                        keys[j] < keys[i] \/ (keys[j] = keys[i] /\ j < i) })
    IN  [p \in DOMAIN rows |-> rows[CHOOSE i \in DOMAIN rows : pos(i) = p]]

\* df.nlargest(n, 'Today %'), keep='first': the n largest, descending, ties
\* in the order of the frame
nlargest(n, rows) ==
    SubSeq(StableSort(rows, [i \in DOMAIN rows |-> -rows[i].TodayPct]),
           1, Min(n, Len(rows)))

\* df.nsmallest(n, 'Today %'), keep='first'
nsmallest(n, rows) ==
    SubSeq(StableSort(rows, [i \in DOMAIN rows |-> rows[i].TodayPct]),
           1, Min(n, Len(rows)))

\* sort_values with the default kind (quicksort, not stable): every order of
\* the rows in which the keys never decrease
SortedOrders(rows, keys) ==
    LET n == Len(rows)
        perms == { f \in [1..n -> 1..n] : \A i, j \in 1..n : f[i] = f[j] => i = j }
    IN  { [p \in 1..n |-> rows[f[p]]] : f \in
            { g \in perms : \A a, b \in 1..n : a < b => keys[g[a]] <= keys[g[b]] } }

\* advancers with >= in place of >
advancers_ge(rows) == Cardinality({ i \in DOMAIN rows : rows[i].TodayPct >= 0 })

\* line 144
advancers(rows) == Cardinality({ i \in DOMAIN rows : rows[i].TodayPct > 0 })
decliners(rows) == Cardinality({ i \in DOMAIN rows : rows[i].TodayPct < 0 })

\* line 145, unrounded: requires a non-empty frame
sent_pct_of(rows) == Frac(advancers(rows) * 100, Len(rows))

\* line 178
with_trend(rows) ==
    [i \in DOMAIN rows |->
        [Symbol |-> rows[i].Symbol,
         Trend |-> IF rows[i].TodayPct >= 0 THEN "up" ELSE "down",
         Signal |-> rows[i].Signal,
         Near52WHigh |-> rows[i].Near52WHigh,
         Near52WLow |-> rows[i].Near52WLow,
         Sector |-> rows[i].Sector,
         LTP |-> rows[i].LTP,
         Change |-> rows[i].Change,
         TodayPct |-> rows[i].TodayPct,
         Volume |-> rows[i].Volume,
         MarketCapCr |-> rows[i].MarketCapCr]]

Symbols(rows) == [i \in DOMAIN rows |-> rows[i].Symbol]

-----------------------------------------------------------------------------
(* volatility, lines 216-221 *)

RECURSIVE SumSeq(_)
SumSeq(s) == IF s = <<>> THEN 0 ELSE Head(s) + SumSeq(Tail(s))

ISqrt(x) == CHOOSE k \in 0..x : k * k <= x /\ x < (k + 1) * (k + 1)

\* Close.pct_change().std()*100, in units of 0.01 %: returns are taken in
\* basis points, the sample standard deviation by integer square root;
\* NaN when fewer than two returns exist
volatility_of(hist) ==
    LET c == hist.Close
        r == [i \in 1..(Len(c) - 1) |->
                RoundHalfEven((c[i + 1] - c[i]) * 10000, c[i])]
        n == Len(c) - 1
        sq == [i \in 1..n |-> r[i] * r[i]]
    IN  IF n < 2 THEN NaN
        ELSE Num(ISqrt((n * SumSeq(sq) - SumSeq(r) * SumSeq(r)) \div (n * (n - 1))))

\* one iteration of the loop at line 214
vol_entry(ticker, hist) ==
    IF hist.raises THEN [Symbol |-> ticker, Volatility |-> Num(0)]
    ELSE [Symbol |-> ticker, Volatility |-> volatility_of(hist)]

\* key of sort_values("Volatility %", ascending=False): NaN last
vol_key(entry) == IF IsFinite(entry.Volatility) THEN -entry.Volatility.v ELSE 1

-----------------------------------------------------------------------------
(* The rendering pass: one run of the script, lines 124-230 *)

Tickers == SubSeq(nifty_50_tickers, 1, NumTickers)
BasketSymbols == { symbol_clean(Tickers[i]) : i \in DOMAIN Tickers }

\* what the provider may answer during a rendering pass
Up21 == MkCloses(21, 10000, 10000, 10000, 10000, 10250)
Down21 == MkCloses(21, 10000, 10000, 10000, 10000, 9900)
Flat21 == MkCloses(21, 10000, 10000, 10000, 10000, 10000)
PassAnswers ==
    { [history |-> Raises, info |-> FullInfo],
      [history |-> Frame(<<10000>>), info |-> FullInfo],
      [history |-> Frame(Up21), info |-> InfoRaises],
      [history |-> Frame(Up21), info |-> FullInfo],
      [history |-> Frame(Down21), info |-> FullInfo] }
IndexHistory == { Raises, Frame(<<22000000>>), Frame(<<22000000, 22110000>>) }
YearHistory == { Raises, Frame(<<10000, 10100, 10201>>) }
MonthHistory == { Raises, Frame(<<10000, 10100, 9999, 10100>>) }
\* seconds between two runs, besides 0: just inside and just outside the ttl
TickSteps == { 599, 601 }

\* nothing rendered yet
BlankPage == [section |-> "", body |-> <<>>]
Element(section, body) == [section |-> section, body |-> body]

Init ==
    /\ now = 0
    /\ pc = "fetch"
    /\ idx_i = 1
    /\ df = <<>>
    /\ cache_pro = <<>>
    /\ cache_hist = [s \in BasketSymbols |-> <<>>]
    /\ calls = {}
    /\ page = BlankPage
    /\ rendered = {}
    /\ provider = <<>>
    /\ ticker_list = Tickers
    /\ last_complete = -1

\* line 125: df = fetch_pro_data(nifty_50_tickers), through st.cache_data
FetchData ==
    /\ pc = "fetch"
    /\ \/ /\ CacheValid(cache_pro, ttl_fetch_pro_data, now)
          /\ df' = cache_pro[1].value
          /\ UNCHANGED <<cache_pro, calls>>
       \/ /\ ~CacheValid(cache_pro, ttl_fetch_pro_data, now)
          /\ \E P \in [Range(ticker_list) -> PassAnswers] :
                LET got == fetch_pro_data(ticker_list, P)
                IN  /\ df' = got.rows
                    /\ cache_pro' = CacheStore(got.rows, now)
                    /\ calls' = calls \cup got.calls
    /\ pc' = "pulse"
    /\ idx_i' = 1
    /\ UNCHANGED <<now, cache_hist, page, rendered, provider, ticker_list,
                   last_complete>>

\* line 139
pulse_metric(name, idx_h) ==
    LET p == iloc_neg(idx_h.Close, 1)
        prev == iloc_neg(idx_h.Close, 2)
    IN  [label |-> name, value |-> round2_price(p),
         delta |-> round2_price(p - prev), pct |-> round2_pct(p - prev, prev)]

\* lines 135-139, one iteration: the call is not guarded, so an exception
\* ends the run
IndexPulse ==
    /\ pc = "pulse"
    /\ \E idx_h \in IndexHistory :
          /\ calls' = calls \cup { HistoryCall(indices[idx_i].t, "5d") }
          /\ IF idx_h.raises
             THEN /\ pc' = "failed"
                  /\ UNCHANGED <<idx_i, page, rendered>>
             ELSE /\ page' = IF Len(idx_h.Close) >= 2
                             THEN Element("pulse", pulse_metric(indices[idx_i].name, idx_h))
                             ELSE page
                  /\ IF idx_i < Len(indices)
                     THEN /\ idx_i' = idx_i + 1
                          /\ UNCHANGED <<pc, rendered>>
                     ELSE /\ pc' = "sentiment"
                          /\ rendered' = rendered \cup {"pulse"}
                          /\ UNCHANGED idx_i
    /\ UNCHANGED <<now, df, cache_pro, cache_hist, provider, ticker_list,
                   last_complete>>

\* lines 144-154: an empty frame has no 'Today %' column (KeyError)
Sentiment ==
    /\ pc = "sentiment"
    /\ IF df = <<>>
       THEN /\ pc' = "failed"
            /\ UNCHANGED <<page, rendered>>
       ELSE /\ page' = Element("sentiment",
                              [adv |-> advancers(df), dec |-> decliners(df),
                               sent_pct |-> sent_pct_of(df)])
            /\ rendered' = rendered \cup {"sentiment"}
            /\ pc' = "top"
    /\ UNCHANGED <<now, idx_i, df, cache_pro, cache_hist, calls, provider,
                   ticker_list, last_complete>>

\* lines 165-170
TopLists ==
    /\ pc = "top"
    /\ page' = Element("top", [gainers |-> nlargest(top_n_gainers, df),
                                losers |-> nsmallest(top_n_losers, df)])
    /\ rendered' = rendered \cup {"top"}
    /\ pc' = "matrix"
    /\ UNCHANGED <<now, idx_i, df, cache_pro, cache_hist, calls, provider,
                   ticker_list, last_complete>>

\* lines 178-196
Matrix ==
    /\ pc = "matrix"
    /\ df' = with_trend(df)
    /\ \E df_display \in SortedOrders(with_trend(df),
                                      [i \in DOMAIN df |-> -df[i].TodayPct]) :
          page' = Element("matrix", df_display)
    /\ rendered' = rendered \cup {"matrix"}
    /\ pc' = "hist"
    /\ UNCHANGED <<now, idx_i, cache_pro, cache_hist, calls, provider,
                   ticker_list, last_complete>>

\* lines 200-209: fetch_historical_perf(symbol) for every symbol of df, each
\* through st.cache_data
Historical ==
    /\ pc = "hist"
    /\ \E Y \in [Range(Symbols(df)) -> YearHistory] :
          LET miss == { s \in Range(Symbols(df)) :
                          ~CacheValid(cache_hist[s], ttl_fetch_historical_perf, now) }
              result(s) == IF s \in miss THEN fetch_historical_perf(s, Y[s])
                           ELSE cache_hist[s][1].value
          IN  /\ cache_hist' = [s \in DOMAIN cache_hist |->
                                  IF s \in miss THEN CacheStore(result(s), now)
                                  ELSE cache_hist[s]]
              /\ calls' = calls \cup { HistoryCall(with_ns(s), "1y") : s \in miss }
              /\ page' = Element("hist",
                            [i \in DOMAIN df |->
                               [Symbol |-> df[i].Symbol, perf |-> result(df[i].Symbol)]])
    /\ rendered' = rendered \cup {"hist"}
    /\ pc' = "vol"
    /\ UNCHANGED <<now, idx_i, df, cache_pro, provider, ticker_list,
                   last_complete>>

\* the loop of a script that walks the basket instead of the frame
vol_loop_basket(rows) == [i \in DOMAIN Tickers |-> symbol_clean(Tickers[i])]

\* line 214: for ticker in df["Symbol"]
vol_loop(rows) == Symbols(rows)

\* lines 213-230: one provider call per symbol of df, not cached
Volatility ==
    /\ pc = "vol"
    /\ \E M \in [Range(vol_loop(df)) -> MonthHistory] :
          LET over == vol_loop(df)
              vol_data == [i \in DOMAIN over |-> vol_entry(over[i], M[over[i]])]
          IN  /\ calls' = calls \cup
                    { HistoryCall(with_ns(over[i]), "1mo") : i \in DOMAIN over }
              /\ \E vol_df \in SortedOrders(vol_data,
                                    [i \in DOMAIN vol_data |-> vol_key(vol_data[i])]) :
                    page' = Element("vol", vol_df)
    /\ rendered' = rendered \cup {"vol"}
    /\ pc' = "done"
    /\ UNCHANGED <<now, idx_i, df, cache_pro, cache_hist, provider, ticker_list,
                   last_complete>>

\* The script runs again (a reload, a new session), d seconds after the run
\* before it; a run's own duration is negligible against the ttl and is
\* taken as zero.  Module state is rebuilt, the st.cache_data stores persist.
Rerun ==
    /\ pc \in {"done", "failed"}
    /\ \E d \in {0} \cup TickSteps :
          /\ now + d <= MaxTime
          /\ now' = now + d
          /\ last_complete' =
                IF pc = "done" /\ d < ttl_fetch_pro_data THEN now
                ELSE IF last_complete >= 0 /\ now + d < last_complete + ttl_fetch_pro_data
                     THEN last_complete
                     ELSE -1
    /\ pc' = "fetch"
    /\ idx_i' = 1
    /\ df' = <<>>
    /\ calls' = {}
    /\ page' = BlankPage
    /\ rendered' = {}
    /\ UNCHANGED <<cache_pro, cache_hist, provider, ticker_list>>

Next ==
    \/ FetchData
    \/ IndexPulse
    \/ Sentiment
    \/ TopLists
    \/ Matrix
    \/ Historical
    \/ Volatility
    \/ Rerun

Spec == Init /\ [][Next]_vars

-----------------------------------------------------------------------------
(* fetch_pro_data and the aggregates as functions of the provider's answers *)

Some(v) == <<v>>
Absent == <<>>

\* a Ticker.info dict from three optional entries
MkInfo(high, low, mcap) ==
    LET o == [fiftyTwoWeekHigh |-> high, fiftyTwoWeekLow |-> low, marketCap |-> mcap]
    IN  Info([k \in { x \in DOMAIN o : o[x] # Absent } |-> o[k][1]])

CalcPrices == { 9000, 10000, 11000 }

\* one ticker, every shape of history and metadata the loop body tells apart
RichHistory ==
    { Raises } \cup
    { Frame(MkCloses(n, c21, c20, c10, 10000, ltp)) :
        n \in {20, 21, 22}, c21 \in CalcPrices, c20 \in CalcPrices,
        c10 \in CalcPrices, ltp \in CalcPrices }
RichInfo ==
    { InfoRaises } \cup
    { MkInfo(h, l, m) :
        h \in { Absent, Some(None), Some(Val(0)), Some(Val(12500)) },
        l \in { Absent, Some(None), Some(Val(0)), Some(Val(8000)) },
        m \in { Absent, Some(None), Some(Val(12345678)) } }

\* a few tickers, each failing in one of the ways the loop catches, or not
MixedAnswers ==
    { [history |-> Raises, info |-> FullInfo],
      [history |-> Frame(<<10000>>), info |-> FullInfo],
      [history |-> Frame(Up21), info |-> InfoRaises],
      [history |-> Frame(Up21),
       info |-> MkInfo(Some(None), Some(Val(8000)), Some(Val(12345678)))],
      [history |-> Frame(Up21), info |-> FullInfo],
      [history |-> Frame(Down21), info |-> FullInfo],
      [history |-> Frame(Flat21), info |-> FullInfo] }

\* many tickers, all healthy
HealthyAnswers ==
    { [history |-> Frame(c), info |-> FullInfo] : c \in { Up21, Down21, Flat21 } }

CalcInit ==
    /\ now = 0
    /\ pc = "input"
    /\ idx_i = 1
    /\ df = <<>>
    /\ cache_pro = <<>>
    /\ cache_hist = <<>>
    /\ calls = {}
    /\ page = BlankPage
    /\ rendered = {}
    /\ last_complete = -1
    /\ \/ /\ ticker_list = SubSeq(nifty_50_tickers, 1, 1)
          /\ provider \in [Range(ticker_list) -> [history : RichHistory, info : RichInfo]]
       \/ /\ ticker_list = SubSeq(nifty_50_tickers, 1, NumCalcTickers)
          /\ provider \in [Range(ticker_list) -> MixedAnswers]
       \/ /\ ticker_list = SubSeq(nifty_50_tickers, 1, MaxRows)
          /\ provider \in [Range(ticker_list) -> HealthyAnswers]

\* fetch_pro_data(ticker_list) on a cold cache, then the aggregates
ApplyFetch ==
    /\ pc = "input"
    /\ LET got == fetch_pro_data(ticker_list, provider)
       IN  /\ df' = got.rows
           /\ calls' = got.calls
    /\ pc' = "sentiment"
    /\ UNCHANGED <<now, idx_i, cache_pro, cache_hist, page, rendered, provider,
                   ticker_list, last_complete>>

CalcNext ==
    \/ ApplyFetch
    \/ Sentiment
    \/ TopLists

SpecCalc == CalcInit /\ [][CalcNext]_vars

-----------------------------------------------------------------------------
(* Claims *)

SymbolOf(ticker) == symbol_clean(ticker)
FrameSymbols(rows) == Range(Symbols(rows))
AllFetched(tickers, made) ==
    \A i \in DOMAIN tickers : HistoryCall(tickers[i], "30d") \in made

\* C1: a cached value stored at t0 is returned without a provider call by
\* any read at most ttl-1 seconds later, and is fetched again and replaced
\* by any read at least ttl+1 seconds later; for fetch_pro_data and for
\* fetch_historical_perf of each symbol.
C1_ReadPro ==
    (pc = "fetch" /\ pc' # "fetch" /\ cache_pro # <<>>) =>
        /\ now - cache_pro[1].at <= ttl_fetch_pro_data - 1 =>
              /\ df' = cache_pro[1].value
              /\ cache_pro' = cache_pro
              /\ calls' = calls
        /\ now - cache_pro[1].at >= ttl_fetch_pro_data + 1 =>
              /\ cache_pro'[1].at = now
              /\ df' = cache_pro'[1].value
              /\ AllFetched(ticker_list, calls')
C1_ReadHist ==
    (pc = "hist" /\ pc' # "hist") =>
        \A i \in DOMAIN df :
            LET s == df[i].Symbol
                made == HistoryCall(with_ns(s), "1y") \in calls'
            IN  cache_hist[s] # <<>> =>
                  /\ now - cache_hist[s][1].at <= ttl_fetch_historical_perf - 1 =>
                        /\ cache_hist'[s] = cache_hist[s]
                        /\ page'.body[i].perf = cache_hist[s][1].value
                        /\ ~made
                  /\ now - cache_hist[s][1].at >= ttl_fetch_historical_perf + 1 =>
                        /\ cache_hist'[s][1].at = now
                        /\ page'.body[i].perf = cache_hist'[s][1].value
                        /\ made
C1_CacheExpiry == [][C1_ReadPro /\ C1_ReadHist]_vars

\* C1 witness: fetch_pro_data was fetched again at 1198 s (its entries of 0 s
\* or 599 s had expired), and in the same run fetch_historical_perf of a
\* symbol was served, without a call, from an entry stored 599 s earlier.
C1_Witness ==
    /\ pc = "vol"
    /\ now = 1198
    /\ cache_pro # <<>> /\ cache_pro[1].at = 1198
    /\ \E i \in DOMAIN df :
          /\ cache_hist[df[i].Symbol] # <<>>
          /\ cache_hist[df[i].Symbol][1].at = 599
          /\ HistoryCall(with_ns(df[i].Symbol), "1y") \notin calls

\* C2 (as claimed): a run that reaches the end, started less than ttl seconds
\* after an earlier run that reached the end, has made no provider call.
C2_SecondPassMakesNoCalls ==
    (pc = "done" /\ last_complete >= 0 /\ now < last_complete + ttl_fetch_pro_data)
        => calls = {}

\* C4 (as claimed): a run is never ended by the index pulse loop: whenever a
\* run is over, all three indices were fetched, and a non-empty frame had
\* its sentiment, rankings and matrix rendered.
C4_IndexFailureIsolated ==
    pc \in {"done", "failed"} =>
        /\ \A i \in DOMAIN indices : HistoryCall(indices[i].t, "5d") \in calls
        /\ df # <<>> => {"sentiment", "top", "matrix"} \subseteq rendered

\* C5 (as claimed): a run whose frame is empty does not fail after the index
\* pulse: it goes on to render.
C5_EmptySnapshotRenders ==
    (df = <<>> /\ "pulse" \in rendered) => pc # "failed"

\* C10: while a run is served fetch_pro_data from the cache, a symbol the
\* cached frame lacks is not in df and no provider call of the run names
\* it; a read before expiry is served from the cache; and a symbol enters
\* the cached frame only when an expired entry is replaced by a fetch of the
\* whole basket.
C10_ServedFromCache ==
    pc # "fetch" /\ cache_pro # <<>> /\ ~AllFetched(ticker_list, calls)
C10_Absent(S) == S \notin FrameSymbols(cache_pro[1].value)
C10_NoTrace ==
    C10_ServedFromCache =>
        \A i \in DOMAIN ticker_list :
            LET S == SymbolOf(ticker_list[i])
            IN  C10_Absent(S) =>
                  /\ S \notin FrameSymbols(df)
                  /\ \A c \in calls : c[1] # ticker_list[i] /\ c[1] # with_ns(S)
C10_Step ==
    /\ (pc = "fetch" /\ pc' # "fetch" /\ cache_pro # <<>>
          /\ now < cache_pro[1].at + ttl_fetch_pro_data)
          => (cache_pro' = cache_pro /\ df' = cache_pro[1].value /\ calls' = calls)
    /\ \A i \in DOMAIN ticker_list :
          (/\ cache_pro # <<>>
           /\ C10_Absent(SymbolOf(ticker_list[i]))
           /\ SymbolOf(ticker_list[i]) \in FrameSymbols(cache_pro'[1].value))
          => /\ now >= cache_pro[1].at + ttl_fetch_pro_data
             /\ AllFetched(ticker_list, calls')
C10_FailureMemoized == []C10_NoTrace /\ [][C10_Step]_vars

\* C10 witness: a run reached the end 599 s after the frame was cached, served
\* from the cache, with one basket symbol missing from the frame and one in it.
C10_Witness ==
    /\ pc = "done"
    /\ C10_ServedFromCache
    /\ now - cache_pro[1].at = 599
    /\ Len(df) = 1
    /\ \E i \in DOMAIN ticker_list : C10_Absent(SymbolOf(ticker_list[i]))

\* what the provider answered for the ticker of a row
AnswerFor(row) == provider[with_ns(row.Symbol)]

\* the loop body appends a row for this answer
Healthy(P) ==
    /\ ~P.history.raises
    /\ Len(P.history.Close) >= 21
    /\ ~P.info.raises
    /\ \A k \in DOMAIN P.info.d : ~P.info.d[k].none

\* C3: fetch_pro_data returns one row for each ticker whose history has at
\* least 21 points and for which nothing raised, in basket order, no other
\* row, and each row is the row the ticker gets when fetched alone.
C3_PartialResult ==
    pc # "input" =>
        LET good == SelectSeq(ticker_list, LAMBDA t : Healthy(provider[t]))
        IN  /\ Len(df) = Len(good)
            /\ \A i \in DOMAIN good :
                  /\ df[i].Symbol = SymbolOf(good[i])
                  /\ <<df[i]>> = fetch_pro_data_body(good[i], provider[good[i]]).rows

\* C3 witness: three tickers, the second with a one-point history, the
\* others healthy: two rows, first and third ticker.
C3_Witness ==
    /\ pc = "sentiment"
    /\ Len(ticker_list) = 3
    /\ provider[ticker_list[2]].history = Frame(<<10000>>)
    /\ Len(df) = 2
    /\ df[1].Symbol = <<"RELIANCE">> /\ df[2].Symbol = <<"HDFCBANK">>

\* C6: the sentiment element of a non-empty frame: advancers are the rows
\* whose change is not <= 0, decliners the rows whose change is not >= 0, a
\* flat row is in neither count and every row is an advancer, a decliner or
\* flat; sent_pct = adv/|rows|*100, within 0..100.
C6_Sentiment ==
    (pc = "top" /\ page.section = "sentiment") =>
        LET b == page.body
            flat == Cardinality({ i \in DOMAIN df : df[i].TodayPct = 0 })
        IN  /\ Len(df) > 0
            /\ b.adv = Len(df) - Cardinality({ i \in DOMAIN df : df[i].TodayPct <= 0 })
            /\ b.dec = Len(df) - Cardinality({ i \in DOMAIN df : df[i].TodayPct >= 0 })
            /\ b.adv + b.dec + flat = Len(df)
            /\ b.adv + b.dec <= Len(df)
            /\ b.sent_pct.d > 0
            /\ b.sent_pct.n * Len(df) = b.adv * 100 * b.sent_pct.d
            /\ 0 <= b.sent_pct.n /\ b.sent_pct.n <= 100 * b.sent_pct.d

\* C6 witness: A up 2.5 %, B down 1.0 %, C flat: advancers 1, decliners 1,
\* sent_pct 33.33.
C6_Witness ==
    /\ pc = "top"
    /\ [i \in DOMAIN df |-> df[i].TodayPct] = <<250, -100, 0>>
    /\ page.body.adv = 1 /\ page.body.dec = 1
    /\ RoundHalfEven(page.body.sent_pct.n * 100, page.body.sent_pct.d) = 3333

\* C7 (as claimed): the signal of every row compares the latest close with
\* the close 20 sessions before it (iloc[-21]), then with the close 10
\* sessions before it (iloc[-11]).
C7_SignalAsClaimed ==
    \A i \in DOMAIN df :
        LET c == AnswerFor(df[i]).history.Close
            ltp == iloc_neg(c, 1)
        IN  df[i].Signal =
              IF iloc_neg(c, 21) < ltp THEN "BULLISH"
              ELSE IF iloc_neg(c, 11) > ltp THEN "BEARISH"
              ELSE "NEUTRAL"

\* C8 (as claimed): a ticker with enough history whose metadata fetch did not
\* raise and whose market cap is usable has a row, with finite distances; a
\* 52-week extreme that is zero, null or absent gives a distance of 0 %, any
\* other the formula.
C8_Missing(d, key) == key \notin DOMAIN d \/ d[key].none \/ d[key].v = 0
C8_DistancesAsClaimed ==
    pc # "input" =>
        \A j \in DOMAIN ticker_list :
            LET P == provider[ticker_list[j]]
                d == P.info.d
                ltp == iloc_neg(P.history.Close, 1)
            IN  (/\ ~P.history.raises /\ Len(P.history.Close) >= 21
                 /\ ~P.info.raises
                 /\ ("marketCap" \in DOMAIN d => ~d["marketCap"].none))
                => \E i \in DOMAIN df :
                      /\ df[i].Symbol = SymbolOf(ticker_list[j])
                      /\ IsFinite(df[i].Near52WHigh) /\ IsFinite(df[i].Near52WLow)
                      /\ df[i].Near52WHigh =
                            IF C8_Missing(d, "fiftyTwoWeekHigh") THEN Num(0)
                            ELSE Num(round2_pct(d["fiftyTwoWeekHigh"].v - ltp,
                                                d["fiftyTwoWeekHigh"].v))
                      /\ df[i].Near52WLow =
                            IF C8_Missing(d, "fiftyTwoWeekLow") THEN Num(0)
                            ELSE Num(round2_pct(ltp - d["fiftyTwoWeekLow"].v,
                                                d["fiftyTwoWeekLow"].v))

\* Python's order of the modelled symbol names
alphabetical ==
    << <<"BHARTIARTL">>, <<"HDFCBANK">>, <<"HINDUNILVR">>, <<"ICICIBANK">>,
       <<"INFY">>, <<"ITC">>, <<"LICI">>, <<"RELIANCE">>, <<"SBIN">>, <<"TCS">> >>
name_rank(s) == CHOOSE i \in DOMAIN alphabetical : alphabetical[i] = s

\* C9 (as claimed): the rankings are the five largest (smallest) changes in
\* descending (ascending) order, equal changes in ascending order of symbol.
C9_TopNAsClaimed ==
    (pc = "matrix" /\ page.section = "top") =>
        LET by_name == StableSort(df, [i \in DOMAIN df |-> name_rank(df[i].Symbol)])
            desc == StableSort(by_name, [i \in DOMAIN df |-> -by_name[i].TodayPct])
            asc == StableSort(by_name, [i \in DOMAIN df |-> by_name[i].TodayPct])
        IN  /\ page.body.gainers = SubSeq(desc, 1, Min(5, Len(df)))
            /\ page.body.losers = SubSeq(asc, 1, Min(5, Len(df)))

====
